---- MODULE Spec2Model ----
(***************************************************************************)
(* Model of src/utils.c: node classification, call pattern matching with   *)
(* an injectable symbol predicate, and formula construction/deconstruction *)
(* over R's SEXP expression tree.                                          *)
(*                                                                         *)
(* A SEXP is a record                                                      *)
(*   type   : the SEXPTYPE tag                                             *)
(*   name   : print name of a SYMSXP / CHARSXP, label of an ENVSXP         *)
(*   kids   : the CARs of a LANGSXP / LISTSXP chain, elements of a VECSXP  *)
(*   tags   : the TAGs of a LANGSXP / LISTSXP chain ("" = no tag)          *)
(*   vals   : the payload of an atomic vector                              *)
(*   attrib : the attribute pairlist, a sequence of [tag, value]           *)
(***************************************************************************)
EXTENDS Integers, Sequences, FiniteSets, TLC

\* ------------------------------------------------------------------ bounds
MaxOperands == 3      \* operands of a formula-headed call: 0 .. MaxOperands
MaxSubArgs == 2       \* sub-arguments of a qualifying head: 0 .. MaxSubArgs
MaxVecLen == 2        \* length of atomic vectors and lists: 0 .. MaxVecLen

\* --------------------------------------------------------- host constants
\* NA_LOGICAL is INT_MIN
NA_LOGICAL == -2147483647 - 1

\* ------------------------------------------------------------ SEXP values
Node(t, n, k, g, v, a) ==
    [type |-> t, name |-> n, kids |-> k, tags |-> g, vals |-> v, attrib |-> a]

R_NilValue == Node("NILSXP", "", <<>>, <<>>, <<>>, <<>>)

Sym(n) == Node("SYMSXP", n, <<>>, <<>>, <<>>, <<>>)

CharSxp(n) == Node("CHARSXP", n, <<>>, <<>>, <<>>, <<>>)

Env(n) == Node("ENVSXP", n, <<>>, <<>>, <<>>, <<>>)

NoTags(k) == [j \in 1..Len(k) |-> ""]

Lang(k) == Node("LANGSXP", "", k, NoTags(k), <<>>, <<>>)

TaggedLang(k, g) == Node("LANGSXP", "", k, g, <<>>, <<>>)

PairList(k) == Node("LISTSXP", "", k, NoTags(k), <<>>, <<>>)

Atomic(t, v) == Node(t, "", <<>>, <<>>, v, <<>>)

List(k) == Node("VECSXP", "", k, <<>>, <<>>, <<>>)

\* ---------------------------------------------------- host runtime access
TYPEOF(x) == x.type

IsCons(x) == x.type \in {"LANGSXP", "LISTSXP"}

\* CAR of a cons cell; R_NilValue is its own CAR; a SYMSXP stores its print
\* name (a CHARSXP) in the slot that CAR reads.
CAR(x) ==
    IF IsCons(x) THEN x.kids[1]
    ELSE IF x.type = "SYMSXP" THEN CharSxp(x.name)
    ELSE R_NilValue

\* CDR of a cons cell is the rest of the chain, a LISTSXP or R_NilValue;
\* R_NilValue is its own CDR.
CDR(x) ==
    IF IsCons(x) /\ Len(x.kids) > 1
    THEN Node("LISTSXP", "", Tail(x.kids), Tail(x.tags), <<>>, <<>>)
    ELSE R_NilValue

CADR(x) == CAR(CDR(x))

CDDR(x) == CDR(CDR(x))

CADDR(x) == CAR(CDDR(x))

CDAR(x) == CDR(CAR(x))

Rf_length(x) ==
    CASE x.type = "NILSXP" -> 0
      [] IsCons(x) -> Len(x.kids)
      [] x.type = "VECSXP" -> Len(x.kids)
      [] x.type \in {"LGLSXP", "INTSXP", "REALSXP", "STRSXP"} -> Len(x.vals)
      [] OTHER -> 1

Rf_isNull(x) == x.type = "NILSXP"

RECURSIVE AttribLookup(_, _)
AttribLookup(a, tag) ==
    IF a = <<>> THEN R_NilValue
    ELSE IF Head(a).tag = tag THEN Head(a).value
    ELSE AttribLookup(Tail(a), tag)

AnyTag(g) == \E j \in 1..Len(g) : g[j] # ""

\* Rf_getAttrib: the names of a pairlist or call are read off its TAGs (and
\* are absent when no cell is tagged); everything else is looked up in the
\* attribute list, an absent attribute reading as R_NilValue.
Rf_getAttrib(x, tag) ==
    IF tag = "names" /\ (IsCons(x) \/ x.type = "NILSXP")
    THEN IF AnyTag(x.tags) THEN Atomic("STRSXP", x.tags) ELSE R_NilValue
    ELSE AttribLookup(x.attrib, tag)

RECURSIVE AttribRemove(_, _)
AttribRemove(a, tag) ==
    IF a = <<>> THEN <<>>
    ELSE IF Head(a).tag = tag THEN AttribRemove(Tail(a), tag)
    ELSE <<Head(a)>> \o AttribRemove(Tail(a), tag)

RECURSIVE AttribInstall(_, _, _)
AttribInstall(a, tag, val) ==
    IF a = <<>> THEN <<[tag |-> tag, value |-> val]>>
    ELSE IF Head(a).tag = tag THEN <<[tag |-> tag, value |-> val]>> \o Tail(a)
    ELSE <<Head(a)>> \o AttribInstall(Tail(a), tag, val)

\* Rf_setAttrib: a R_NilValue value removes the attribute, any other value
\* replaces it in place or is appended to the attribute list.
Rf_setAttrib(x, tag, val) ==
    IF val = R_NilValue
    THEN [x EXCEPT !.attrib = AttribRemove(x.attrib, tag)]
    ELSE [x EXCEPT !.attrib = AttribInstall(x.attrib, tag, val)]

Rf_lang2(s, t) == Lang(<<s, t>>)

Rf_mkString(s) == Atomic("STRSXP", <<s>>)

\* STRING_ELT is zero-based
STRING_ELT(x, i) == CharSxp(x.vals[i + 1])

\* --------------------------------------------------------------- returns
Return(v) == [err |-> "", val |-> v]

Rf_errorcall(msg) == [err |-> msg, val |-> "unwound"]

\* ------------------------------------------------------ attribute helper
is_character(x) == TYPEOF(x) = "STRSXP"

is_str_empty(str) == str.name = ""

names(x) == Rf_getAttrib(x, "names")

has_name_at_NoEmptyCheck(x, i) == is_character(names(x))

has_name_at(x, i) ==
    LET nms == names(x)
    IN  is_character(nms) /\ ~is_str_empty(STRING_ELT(nms, i))

\* ------------------------------------------------------- node classifier
is_sym(x, string) ==
    IF TYPEOF(x) # "SYMSXP" THEN FALSE ELSE x.name = string

is_symbolic(x) == TYPEOF(x) = "LANGSXP" \/ TYPEOF(x) = "SYMSXP"

is_lang(x, f) ==
    IF ~is_symbolic(x) /\ TYPEOF(x) # "LISTSXP" THEN FALSE
    ELSE LET fun == CAR(x) IN is_sym(fun, f)

is_true_NAIsError(x) ==
    IF TYPEOF(x) # "LGLSXP" \/ Rf_length(x) # 1 \/ x.vals[1] = NA_LOGICAL
    THEN Rf_errorcall("x must be a boolean")
    ELSE Return(x.vals[1])

is_true(x) ==
    IF TYPEOF(x) # "LGLSXP" \/ Rf_length(x) # 1
    THEN Rf_errorcall("x must be a boolean")
    ELSE LET value == x.vals[1]
         IN  Return(IF value = NA_LOGICAL THEN 0 ELSE value)

\* --------------------------------------------------- symbol predicates
\* The int (*sym_predicate)(SEXP) arguments: predicates that accept one
\* symbol by name (is_sym with a fixed string), the source's own
\* is_symbolic, which has the same signature, and the NULL pointer.
NullPredicate == "NULL"

SymPredicates == {"is_sym_a", "is_sym_b", "is_symbolic"}

sym_predicate(p, x) ==
    CASE p = "is_sym_a" -> is_sym(x, "a")
      [] p = "is_sym_b" -> is_sym(x, "b")
      [] p = "is_symbolic" -> is_symbolic(x)

\* A matcher's outcome: the value it returns and the nodes it handed to the
\* predicate, in order.
Answer(v, s) == [val |-> v, seen |-> s]

\* ------------------------------------------------- call pattern matcher
PrefixNames == {"$", "@", "::", ":::"}

is_prefixed_call_FirstArg(x, p) ==
    IF TYPEOF(x) # "LANGSXP" THEN Answer(FALSE, <<>>)
    ELSE LET head == CAR(x)
         IN  IF ~(\E f \in PrefixNames : is_lang(head, f))
             THEN Answer(FALSE, <<>>)
             ELSE IF p = NullPredicate THEN Answer(TRUE, <<>>)
             ELSE LET sym == CAR(CDAR(x))
                  IN  Answer(sym_predicate(p, sym), <<sym>>)

is_prefixed_call(x, p) ==
    IF TYPEOF(x) # "LANGSXP" THEN Answer(FALSE, <<>>)
    ELSE LET head == CAR(x)
         IN  IF ~(is_lang(head, "$") \/ is_lang(head, "@") \/
                  is_lang(head, "::") \/ is_lang(head, ":::"))
             THEN Answer(FALSE, <<>>)
             ELSE IF p = NullPredicate THEN Answer(TRUE, <<>>)
             ELSE LET args == CDAR(x)
                      sym == CADR(args)
                  IN  Answer(sym_predicate(p, sym), <<sym>>)

is_any_call_NoGuard(x, p) ==
    IF sym_predicate(p, CAR(x)) THEN Answer(TRUE, <<CAR(x)>>)
    ELSE LET q == is_prefixed_call(x, p)
         IN  Answer(q.val, <<CAR(x)>> \o q.seen)

is_any_call_NoPrefix(x, p) ==
    IF TYPEOF(x) # "LANGSXP" THEN Answer(FALSE, <<>>)
    ELSE Answer(sym_predicate(p, CAR(x)), <<CAR(x)>>)

is_any_call(x, p) ==
    IF TYPEOF(x) # "LANGSXP" THEN Answer(FALSE, <<>>)
    ELSE IF sym_predicate(p, CAR(x)) THEN Answer(TRUE, <<CAR(x)>>)
    ELSE LET q == is_prefixed_call(x, p)
         IN  Answer(q.val, <<CAR(x)>> \o q.seen)

NamespaceName == "rlang"

is_rlang_prefixed_AnyNamespace(x, p) ==
    IF TYPEOF(x) # "LANGSXP" THEN Answer(FALSE, <<>>)
    ELSE IF ~is_lang(CAR(x), "::") THEN Answer(FALSE, <<>>)
    ELSE LET args == CDAR(x)
         IN  IF p # NullPredicate
             THEN LET sym == CADR(args)
                  IN  Answer(sym_predicate(p, sym), <<sym>>)
             ELSE Answer(TRUE, <<>>)

is_rlang_prefixed(x, p) ==
    IF TYPEOF(x) # "LANGSXP" THEN Answer(FALSE, <<>>)
    ELSE IF ~is_lang(CAR(x), "::") THEN Answer(FALSE, <<>>)
    ELSE LET args == CDAR(x)
             ns_sym == CAR(args)
         IN  IF ~is_sym(ns_sym, NamespaceName) THEN Answer(FALSE, <<>>)
             ELSE IF p # NullPredicate
             THEN LET sym == CADR(args)
                  IN  Answer(sym_predicate(p, sym), <<sym>>)
             ELSE Answer(TRUE, <<>>)

is_rlang_call(x, p) ==
    IF TYPEOF(x) # "LANGSXP" THEN Answer(FALSE, <<>>)
    ELSE IF sym_predicate(p, CAR(x)) THEN Answer(TRUE, <<CAR(x)>>)
    ELSE LET q == is_rlang_prefixed(x, p)
         IN  Answer(q.val, <<CAR(x)>> \o q.seen)

\* ------------------------------------------------------------- formulas
is_formula(x) ==
    IF TYPEOF(x) # "LANGSXP" THEN FALSE
    ELSE LET head == CAR(x)
         IN  IF TYPEOF(head) # "SYMSXP" THEN FALSE
             ELSE is_sym(head, "~") \/ is_sym(head, ":=")

is_fpromise(x) == is_formula(x) /\ Rf_isNull(CDDR(x))

f_rhs_Swapped(f) ==
    IF ~is_formula(f) THEN Rf_errorcall("x is not a formula")
    ELSE CASE Rf_length(f) = 2 -> Return(CADR(f))
           [] Rf_length(f) = 3 -> Return(CADR(f))
           [] OTHER -> Rf_errorcall("Invalid formula")

f_rhs_(f) ==
    IF ~is_formula(f) THEN Rf_errorcall("x is not a formula")
    ELSE CASE Rf_length(f) = 2 -> Return(CADR(f))
           [] Rf_length(f) = 3 -> Return(CADDR(f))
           [] OTHER -> Rf_errorcall("Invalid formula")

f_lhs_Lenient(f) ==
    IF ~is_formula(f) THEN Rf_errorcall("x is not a formula")
    ELSE CASE Rf_length(f) = 3 -> Return(CADR(f))
           [] OTHER -> Return(R_NilValue)

f_lhs_(f) ==
    IF ~is_formula(f) THEN Rf_errorcall("x is not a formula")
    ELSE CASE Rf_length(f) = 2 -> Return(R_NilValue)
           [] Rf_length(f) = 3 -> Return(CADR(f))
           [] OTHER -> Rf_errorcall("Invalid formula")

f_env_(f) ==
    IF ~is_formula(f) THEN Rf_errorcall("x is not a formula")
    ELSE Return(Rf_getAttrib(f, ".Environment"))

make_formula1_NoEnv(rhs, env) ==
    LET f0 == Rf_lang2(Sym("~"), rhs)
    IN  Rf_setAttrib(f0, "class", Rf_mkString("formula"))

make_formula1(rhs, env) ==
    LET f0 == Rf_lang2(Sym("~"), rhs)
        f1 == Rf_setAttrib(f0, "class", Rf_mkString("formula"))
        f2 == Rf_setAttrib(f1, ".Environment", env)
    IN  f2

\* ---------------------------------------------------------------- inputs
SeqsUpTo(S, n) == UNION {[1..k -> S] : k \in 0..n}

Scopes == {Env("R_GlobalEnv"), Env("local"), R_NilValue}

Exprs == {Lang(<<Sym("a"), Sym("b")>>), Atomic("REALSXP", <<1>>)}

Operands == {Sym("a"), Sym("b"), Lang(<<Sym("a")>>)}

NonCalls == {R_NilValue, Sym("a"), Sym("~"), Sym("::"),
             Atomic("LGLSXP", <<1>>), Atomic("STRSXP", <<"a">>),
             List(<<Sym("a")>>), List(<<>>)}

FormulaInputs ==
    {Lang(<<Sym(h)>> \o ops) :
        h \in {"~", ":=", "a"}, ops \in SeqsUpTo(Operands, MaxOperands)}
    \cup {Lang(<<Lang(<<Sym("~"), Sym("a")>>), Sym("b")>>),
          PairList(<<Sym("~"), Sym("a")>>)}
    \cup NonCalls

SubArgs == {Sym("a"), Sym("b"), Sym("rlang"), Sym("pkg")}

QualHeads ==
    {Lang(<<Sym(h)>> \o sa) :
        h \in PrefixNames \cup {"a", "b"}, sa \in SeqsUpTo(SubArgs, MaxSubArgs)}
    \cup {PairList(<<Sym(h)>> \o sa) :
        h \in {"$", "a"}, sa \in SeqsUpTo({Sym("a"), Sym("b")}, MaxSubArgs)}

Heads ==
    QualHeads
    \cup {Sym("a"), Sym("b"), Sym("::"), Sym("$"), R_NilValue,
          Atomic("STRSXP", <<"a">>),
          Lang(<<Lang(<<Sym("::"), Sym("rlang"), Sym("b")>>), Sym("a")>>)}

MatcherInputs ==
    {Lang(<<h>> \o as) : h \in Heads, as \in {<<>>, <<Sym("a")>>}}
    \cup {PairList(<<h>>) : h \in {Sym("a"), Sym("::"),
                                   Lang(<<Sym("::"), Sym("rlang"), Sym("a")>>)}}
    \cup NonCalls

LogicalValues == {0, 1, NA_LOGICAL}

BoolInputs ==
    {Atomic(t, v) : t \in {"LGLSXP", "INTSXP", "REALSXP"},
                    v \in SeqsUpTo(LogicalValues, MaxVecLen)}
    \cup NonCalls
    \cup {Lang(<<Sym("a")>>)}

NameStrings == {"", "n"}

\* containers of length 1 .. MaxVecLen: lists and atomics whose names
\* attribute is absent, a string vector of the same length, or (ill-formed)
\* not a string vector; and calls, whose names are their tags
NamedInputs ==
    LET Lens == 1..MaxVecLen
        Bare == {List([j \in 1..n |-> Sym("a")]) : n \in Lens}
                \cup {Atomic("INTSXP", [j \in 1..n |-> 0]) : n \in Lens}
    IN  Bare
        \cup {Rf_setAttrib(b, "names", Atomic("STRSXP", nm)) :
                b \in Bare, nm \in SeqsUpTo(NameStrings, MaxVecLen) \ {<<>>}}
        \cup {Rf_setAttrib(b, "names", Atomic("INTSXP", <<0, 0>>)) : b \in Bare}
        \cup {Rf_setAttrib(Rf_setAttrib(b, "class", Rf_mkString("k")),
                           "names", Atomic("STRSXP", <<"n", "">>)) : b \in Bare}
        \cup {TaggedLang([j \in 1..n |-> Sym("a")], g) :
                n \in Lens, g \in SeqsUpTo(NameStrings, MaxVecLen) \ {<<>>}}

WellSized(x) ==
    LET nms == AttribLookup(x.attrib, "names")
    IN  /\ x.type = "LANGSXP" => Len(x.tags) = Len(x.kids)
        /\ (x.type # "LANGSXP" /\ nms.type = "STRSXP")
              => Len(nms.vals) = Rf_length(x)

\* ------------------------------------------------------------------ state
\* The functions are pure; a behaviour is one caller holding its arguments
\* (x, p, s, i, sc) and applying the functions to them, and to the formula
\* it has built, in any order.
\*   x, p, s, i, sc : the caller's arguments, fixed from Init on
\*   op, obj        : the function applied last and the node it was given
\*   ret, seen      : what it returned or raised, and the nodes it passed
\*                    to the predicate
\*   made           : the formula make_formula1 returned, if one was built
VARIABLES x, p, s, i, sc, op, obj, ret, seen, made

vars == <<x, p, s, i, sc, op, obj, ret, seen, made>>

inputs == <<x, p, s, i, sc>>

NotMade == [built |-> FALSE, rhs |-> R_NilValue, env |-> R_NilValue,
            f |-> R_NilValue]

MatcherCase ==
    /\ x \in MatcherInputs
    /\ p \in SymPredicates \cup {NullPredicate}
    /\ s \in {"a", "::"}
    /\ i = 0
    /\ sc = R_NilValue

FormulaCase ==
    /\ x \in FormulaInputs \cup Exprs
    /\ p = NullPredicate
    /\ s = "~"
    /\ i = 0
    /\ sc \in Scopes

NamedCase ==
    /\ x \in {y \in NamedInputs : WellSized(y)}
    /\ p = NullPredicate
    /\ s = "a"
    /\ i \in 0..(MaxVecLen - 1)
    /\ sc = R_NilValue

BoolCase ==
    /\ x \in BoolInputs
    /\ p = NullPredicate
    /\ s = "a"
    /\ i = 0
    /\ sc = R_NilValue

Init ==
    /\ MatcherCase \/ FormulaCase \/ NamedCase \/ BoolCase
    /\ op = "none"
    /\ obj = R_NilValue
    /\ ret = Return(R_NilValue)
    /\ seen = <<>>
    /\ made = NotMade

\* the nodes a function can be handed: the caller's x, or the formula the
\* constructor returned
Targets == {x} \cup (IF made.built THEN {made.f} ELSE {})

Called(name, y, result, passed) ==
    /\ op' = name
    /\ obj' = y
    /\ ret' = result
    /\ seen' = passed
    /\ UNCHANGED inputs

Do_make_formula1 ==
    LET f == make_formula1(x, sc)
    IN  /\ Called("make_formula1", x, Return(f), <<>>)
        /\ made' = [built |-> TRUE, rhs |-> x, env |-> sc, f |-> f]

Do_is_formula ==
    \E y \in Targets :
        /\ Called("is_formula", y, Return(is_formula(y)), <<>>)
        /\ UNCHANGED made

Do_is_fpromise ==
    \E y \in Targets :
        /\ Called("is_fpromise", y, Return(is_fpromise(y)), <<>>)
        /\ UNCHANGED made

Do_f_rhs_ ==
    \E y \in Targets :
        /\ Called("f_rhs_", y, f_rhs_(y), <<>>)
        /\ UNCHANGED made

Do_f_lhs_ ==
    \E y \in Targets :
        /\ Called("f_lhs_", y, f_lhs_(y), <<>>)
        /\ UNCHANGED made

Do_f_env_ ==
    \E y \in Targets :
        /\ Called("f_env_", y, f_env_(y), <<>>)
        /\ UNCHANGED made

Do_is_lang ==
    /\ Called("is_lang", x, Return(is_lang(x, s)), <<>>)
    /\ UNCHANGED made

Matched(name, q) ==
    /\ Called(name, x, Return(q.val), q.seen)
    /\ UNCHANGED made

Do_is_prefixed_call == Matched("is_prefixed_call", is_prefixed_call(x, p))

\* is_any_call and is_rlang_call call through the pointer unconditionally:
\* they are only ever given a predicate
Do_is_any_call ==
    /\ p # NullPredicate
    /\ Matched("is_any_call", is_any_call(x, p))

Do_is_rlang_prefixed == Matched("is_rlang_prefixed", is_rlang_prefixed(x, p))

Do_is_rlang_call ==
    /\ p # NullPredicate
    /\ Matched("is_rlang_call", is_rlang_call(x, p))

Do_is_true ==
    /\ Called("is_true", x, is_true(x), <<>>)
    /\ UNCHANGED made

\* STRING_ELT past the end of the names is undefined: callers bound-check
Do_has_name_at ==
    /\ i < Rf_length(x)
    /\ is_character(names(x)) => i < Rf_length(names(x))
    /\ Called("has_name_at", x, Return(has_name_at(x, i)), <<>>)
    /\ UNCHANGED made

Next ==
    \/ Do_make_formula1
    \/ Do_is_formula
    \/ Do_is_fpromise
    \/ Do_f_rhs_
    \/ Do_f_lhs_
    \/ Do_f_env_
    \/ Do_is_lang
    \/ Do_is_prefixed_call
    \/ Do_is_any_call
    \/ Do_is_rlang_prefixed
    \/ Do_is_rlang_call
    \/ Do_is_true
    \/ Do_has_name_at

Spec == Init /\ [][Next]_vars

\* ================================================================ claims
\* The vocabulary of the claims, written over the shape of a node rather
\* than through the functions under test.
Absent == R_NilValue

IsCall(n) == n.type = "LANGSXP"

HeadOf(n) == n.kids[1]

OperandsOf(n) == Tail(n.kids)

FormulaShaped(n) ==
    /\ IsCall(n)
    /\ HeadOf(n).type = "SYMSXP"
    /\ HeadOf(n).name \in {"~", ":="}

NotAFormulaError == "x is not a formula"

MalformedFormulaError == "Invalid formula"

TypeError == "x must be a boolean"

Raised(e) == ret.err = e

Returned(v) == ret.err = "" /\ ret.val = v

OnMade == made.built /\ obj = made.f

\* C1: on the formula f = make_formula1(e, sc), f_rhs_ returns e, f_lhs_
\* returns the absent marker, f_env_ returns sc and is_fpromise is true;
\* none of the accessors raises.
C1_RoundTrip ==
    OnMade =>
        /\ op = "f_rhs_" => Returned(made.rhs)
        /\ op = "f_lhs_" => Returned(Absent)
        /\ op = "f_env_" => Returned(made.env)
        /\ op = "is_fpromise" => Returned(TRUE)

C1_Witness ==
    /\ OnMade
    /\ op = "f_env_"
    /\ made.env = Env("local")
    /\ made.rhs = Lang(<<Sym("a"), Sym("b")>>)
    /\ Returned(Env("local"))

\* C2: f_rhs_ and f_lhs_ raise NotAFormulaError exactly on nodes that are
\* not formula-shaped, MalformedFormulaError exactly on formula-shaped
\* calls with 0 or with 3 or more operands; with one operand f_rhs_ returns
\* it and f_lhs_ returns the absent marker; they raise in no other case.
C2_ErrorDispatch ==
    op \in {"f_rhs_", "f_lhs_"} =>
        IF ~FormulaShaped(obj) THEN Raised(NotAFormulaError)
        ELSE LET n == Len(OperandsOf(obj))
             IN  /\ (n = 0 \/ n >= 3) => Raised(MalformedFormulaError)
                 /\ (n = 1 /\ op = "f_rhs_") => Returned(OperandsOf(obj)[1])
                 /\ (n = 1 /\ op = "f_lhs_") => Returned(Absent)
                 /\ n \in {1, 2} => ret.err = ""

C2_Witness ==
    /\ op = "f_lhs_"
    /\ FormulaShaped(obj)
    /\ Len(OperandsOf(obj)) = 3
    /\ Raised(MalformedFormulaError)

TwoOperandTilde(n) ==
    /\ FormulaShaped(n)
    /\ HeadOf(n).name = "~"
    /\ Len(OperandsOf(n)) = 2

\* C3 as stated: on the call ~(L, R), f_rhs_ returns L and f_lhs_ returns R.
C3_AsStated ==
    TwoOperandTilde(obj) =>
        /\ op = "f_rhs_" => Returned(OperandsOf(obj)[1])
        /\ op = "f_lhs_" => Returned(OperandsOf(obj)[2])

\* C3 as amended: on the call ~(L, R), f_rhs_ returns R, the second
\* operand, and f_lhs_ returns L, the first.
C3_Amended ==
    TwoOperandTilde(obj) =>
        /\ op = "f_rhs_" => Returned(OperandsOf(obj)[2])
        /\ op = "f_lhs_" => Returned(OperandsOf(obj)[1])

C3_Witness ==
    /\ op = "f_rhs_"
    /\ obj = Lang(<<Sym("~"), Sym("a"), Sym("b")>>)
    /\ Returned(Sym("b"))

\* C4: is_fpromise is true iff the node is formula-shaped and has exactly
\* one operand; in particular it is false with zero operands.
C4_OneSided ==
    op = "is_fpromise" =>
        Returned(FormulaShaped(obj) /\ Len(OperandsOf(obj)) = 1)

NamespaceQualified(n, ns, name) ==
    /\ IsCall(n)
    /\ HeadOf(n) = Lang(<<Sym("::"), Sym(ns), Sym(name)>>)

OtherNamespace(n) ==
    \E ns \in {"a", "b", "pkg"}, name \in {"a", "b", "rlang", "pkg"} :
        NamespaceQualified(n, ns, name)

\* C5 as stated: is_rlang_call is false on every call whose head is n::s
\* with n another namespace than the one matched, whatever the predicate.
C5_AsStated ==
    (op = "is_rlang_call" /\ OtherNamespace(obj)) => Returned(FALSE)

\* C5 as amended: on a call whose head is n::s with n other than "rlang",
\* is_rlang_call is true exactly when the predicate accepts the head node
\* n::s itself; the right-hand name s is never shown to the predicate.
C5_Amended ==
    (op = "is_rlang_call" /\ OtherNamespace(obj)) =>
        /\ Returned(sym_predicate(p, HeadOf(obj)))
        /\ seen = <<HeadOf(obj)>>

C5_Witness ==
    /\ op = "is_rlang_call"
    /\ NamespaceQualified(obj, "pkg", "a")
    /\ p = "is_sym_a"
    /\ Returned(FALSE)

IsPairs(n) == n.type \in {"LANGSXP", "LISTSXP"}

\* the head is itself a call (or pairlist) headed by $, @, :: or :::
QualifiedHead(h) ==
    /\ IsPairs(h)
    /\ HeadOf(h).type = "SYMSXP"
    /\ HeadOf(h).name \in {"$", "@", "::", ":::"}

\* the second sub-argument of a qualifying head, the empty list if it has
\* fewer than two
RightName(h) ==
    IF Len(OperandsOf(h)) >= 2 THEN OperandsOf(h)[2] ELSE R_NilValue

\* C6: is_any_call(x, r) is true iff x is a call and r accepts its head or
\* the head is qualified and r accepts its right-hand name; so a predicate
\* accepting only the symbol b rejects pkg::a(...) and accepts pkg::b(...).
C6_MatchesCall ==
    op = "is_any_call" =>
        /\ Returned(/\ IsCall(obj)
                    /\ \/ sym_predicate(p, HeadOf(obj))
                       \/ /\ QualifiedHead(HeadOf(obj))
                          /\ sym_predicate(p, RightName(HeadOf(obj))))
        /\ (p = "is_sym_b" /\ NamespaceQualified(obj, "pkg", "a"))
              => Returned(FALSE)
        /\ (p = "is_sym_b" /\ NamespaceQualified(obj, "pkg", "b"))
              => Returned(TRUE)

C6_Witness ==
    /\ op = "is_any_call"
    /\ p = "is_sym_b"
    /\ NamespaceQualified(obj, "pkg", "b")
    /\ Returned(TRUE)
    /\ seen = <<HeadOf(obj), Sym("b")>>

TwoSubArgs(h) == QualifiedHead(h) /\ Len(OperandsOf(h)) = 2

\* is_qualified_call is is_prefixed_call without a predicate,
\* is_qualified_call_matching is is_prefixed_call with one
C7_TwoSubArgs ==
    (op = "is_prefixed_call" /\ IsCall(obj) /\ TwoSubArgs(HeadOf(obj))) =>
        IF p = NullPredicate THEN Returned(TRUE)
        ELSE /\ Returned(sym_predicate(p, OperandsOf(HeadOf(obj))[2]))
             /\ seen = <<OperandsOf(HeadOf(obj))[2]>>

\* C7 as stated: on a call whose head is a $, @, :: or ::: call with two
\* sub-arguments [left, right], is_prefixed_call without a predicate is
\* true and with a predicate r is r(right); on every node whose head is not
\* of that shape it is false and r is not consulted.
C7_AsStated ==
    /\ C7_TwoSubArgs
    /\ (op = "is_prefixed_call" /\ ~(IsCall(obj) /\ TwoSubArgs(HeadOf(obj))))
          => (Returned(FALSE) /\ seen = <<>>)

\* C7 as amended: the shape that counts is the head being a call headed by
\* $, @, :: or :::, whatever its number of sub-arguments. With two
\* sub-arguments the result is as stated; on every node whose head is not
\* headed by one of the four prefixes the result is false and r is not
\* consulted; a qualifying head with another number of sub-arguments is
\* qualified too, and r is given its second sub-argument, or the empty
\* list when it has fewer than two.
C7_Amended ==
    /\ C7_TwoSubArgs
    /\ (op = "is_prefixed_call" /\ ~(IsCall(obj) /\ QualifiedHead(HeadOf(obj))))
          => (Returned(FALSE) /\ seen = <<>>)
    /\ (op = "is_prefixed_call" /\ IsCall(obj) /\ QualifiedHead(HeadOf(obj)))
          => IF p = NullPredicate THEN Returned(TRUE)
             ELSE /\ Returned(sym_predicate(p, RightName(HeadOf(obj))))
                  /\ seen = <<RightName(HeadOf(obj))>>

C7_Witness ==
    /\ op = "is_prefixed_call"
    /\ IsCall(obj)
    /\ HeadOf(obj) = Lang(<<Sym("$"), Sym("a"), Sym("b")>>)
    /\ p = "is_sym_b"
    /\ Returned(TRUE)

LengthOneLogical(n) == n.type = "LGLSXP" /\ Len(n.vals) = 1

\* C8: is_true raises TypeError on everything but a length-1 logical; on a
\* length-1 logical it does not raise and returns false (0) for NA and for
\* FALSE, true (1) for TRUE.
C8_CoerceToBool ==
    op = "is_true" =>
        IF LengthOneLogical(obj)
        THEN Returned(IF obj.vals[1] = 1 THEN 1 ELSE 0)
        ELSE Raised(TypeError)

C8_Witness ==
    /\ op = "is_true"
    /\ obj = Atomic("LGLSXP", <<NA_LOGICAL>>)
    /\ Returned(0)

\* the names mapping of a container: the tags of a call when any is set,
\* the names attribute of a vector
NamesPresent(n) ==
    IF IsPairs(n) THEN \E j \in 1..Len(n.tags) : n.tags[j] # ""
    ELSE \E j \in 1..Len(n.attrib) :
            n.attrib[j].tag = "names" /\ n.attrib[j].value.type = "STRSXP"

NameEntry(n, k) ==
    IF IsPairs(n) THEN n.tags[k + 1]
    ELSE LET j == CHOOSE j \in 1..Len(n.attrib) : n.attrib[j].tag = "names"
         IN  n.attrib[j].value.vals[k + 1]

\* C9: has_name_at(x, i) is true iff the names of x are present as a string
\* vector and entry i is not the empty string; so it is false at every
\* index when the names are absent and wherever the entry is empty.
C9_HasNameAt ==
    op = "has_name_at" =>
        Returned(NamesPresent(obj) /\ NameEntry(obj, i) # "")

C9_Witness ==
    /\ op = "has_name_at"
    /\ NamesPresent(obj)
    /\ obj.type = "VECSXP"
    /\ NameEntry(obj, i) = ""
    /\ i = 1
    /\ NameEntry(obj, 0) = "n"
    /\ Returned(FALSE)

MatcherOps == {"is_lang", "is_prefixed_call", "is_any_call",
               "is_rlang_prefixed", "is_rlang_call"}

NotACall(n) ==
    n.type \in {"NILSXP", "SYMSXP", "LGLSXP", "INTSXP", "REALSXP", "STRSXP",
                "VECSXP"}

\* C10: every matcher returns a boolean and never raises; on a node that is
\* not a call (null, symbol, atomic, list) it returns false and the
\* predicate is not called.
C10_TotalMatchers ==
    op \in MatcherOps =>
        /\ ret.err = ""
        /\ ret.val \in BOOLEAN
        /\ NotACall(obj) => (ret.val = FALSE /\ seen = <<>>)

C10_Witness ==
    /\ op = "is_any_call"
    /\ obj = Sym("a")
    /\ p = "is_sym_a"
    /\ Returned(FALSE)
    /\ seen = <<>>

====
